---- MODULE Spec2Model ----
(***************************************************************************)
(* A model of the recursive-descent calculator of src/main.c.              *)
(*                                                                         *)
(* calculate(expression) validates the characters of the text and then     *)
(* runs evaluate_expression / evaluate_term / get_natural, three mutually  *)
(* recursive functions that share one cursor, the int behind the pointer   *)
(* `position`.  The C call stack is the variable `stack`; every frame      *)
(* carries the locals of its function and the place (pc) where it is       *)
(* waiting or running.                                                     *)
(*                                                                         *)
(* A text is a sequence of one-character strings; the cursor is the        *)
(* 0-based C index, so the character under the cursor is                   *)
(* text[position + 1].                                                     *)
(***************************************************************************)
EXTENDS Integers, Sequences, FiniteSets, TLC

VARIABLES
    text,      \* calculate: char *expression, never written
    i,         \* calculate: unsigned int i of the validation loop
    position,  \* calculate: int position, the cursor behind int *position
    stack,     \* the frames of the running calls, the caller first
    status,    \* "validate", "parse", or how the run ended
    result,    \* the value that calculate returned
    tail       \* the bytes behind the terminator read so far

vars == <<text, i, position, stack, status, result, tail>>

(***************************************************************************)
(* Bounds of the model.                                                    *)
(***************************************************************************)
\* every text over Alphabet of length 1..MaxLen is an input
MaxLen == 3
\* every well-formed expression over GenDigits of length up to MaxWF is an input
MaxWF == 8
\* number of bytes behind the terminator that a run may read before it faults
MaxTail == 1

(***************************************************************************)
(* Characters.                                                             *)
(***************************************************************************)
Digits == {"0", "1", "2"}

GenDigits == {"2"}

\* the terminating '\0' of a C string
NUL == "NUL"

\* a character outside the allowed set ('.', 'f', 'x', '\n', ...)
Other == "x"

\* is_right_char(c), src/main.c:156-160
is_right_char(c) ==
    \/ c = "(" \/ c = ")" \/ c = "+" \/ c = "-"
    \/ c = "*" \/ c = "/" \/ c \in Digits

Alphabet == Digits \cup {"+", "-", "*", "/", "(", ")", Other}

\* what a byte behind the terminator may hold
JunkBytes == Alphabet \cup {NUL}

\* isdigit(c)
isdigit(c) == c \in Digits

\* c - '0' for a digit c
DigitValue(c) == CASE c = "0" -> 0 [] c = "1" -> 1 [] c = "2" -> 2

Abs(n) == IF n < 0 THEN -n ELSE n

(***************************************************************************)
(* The inputs: every text over Alphabet up to MaxLen characters, and every *)
(* expression of the grammar                                               *)
(*    Expr ::= Term (('+' | '-') Term)*                                    *)
(*    Term ::= Fact (('*' | '/') Fact)*                                    *)
(*    Fact ::= ['-'] Prim        Prim ::= digit+ | '(' Expr ')'            *)
(* over GenDigits up to MaxWF characters.                                  *)
(***************************************************************************)
RECURSIVE GenPrim(_), GenFact(_), GenTerm(_), GenExpr(_)

GenPrim(n) ==
    [1..n -> GenDigits]
        \cup (IF n >= 3 THEN {<<"(">> \o e \o <<")">> : e \in GenExpr(n - 2)} ELSE {})

GenFact(n) ==
    GenPrim(n) \cup (IF n >= 2 THEN {<<"-">> \o p : p \in GenPrim(n - 1)} ELSE {})

GenTerm(n) ==
    GenFact(n)
        \cup UNION {UNION {{t \o <<op>> \o f : f \in GenFact(n - 1 - k), op \in {"*", "/"}}
                               : t \in GenTerm(k)} : k \in 1..(n - 2)}

GenExpr(n) ==
    GenTerm(n)
        \cup UNION {UNION {{e \o <<op>> \o t : t \in GenTerm(n - 1 - k), op \in {"+", "-"}}
                               : e \in GenExpr(k)} : k \in 1..(n - 2)}

Texts ==
    UNION {[1..n -> Alphabet] : n \in 1..MaxLen}
        \cup UNION {GenExpr(n) : n \in (MaxLen + 1)..MaxWF}

(***************************************************************************)
(* Memory.  expr[p] is a character of the text for p < strlen(expr), the   *)
(* terminator for p = strlen(expr), and a byte that does not belong to the *)
(* string for p > strlen(expr): reading it is undefined behaviour.  `tail` *)
(* holds the bytes behind the terminator that the run has found so far.    *)
(***************************************************************************)
strlen(expr) == Len(expr)

Readable(p) == p <= strlen(text) + Len(tail)

Byte(p) ==
    IF p < strlen(text) THEN text[p + 1]
    ELSE IF p = strlen(text) THEN NUL
    ELSE tail[p - strlen(text)]

\* expr[*position]
Cur == Byte(position)

(***************************************************************************)
(* Frames of the call stack.                                               *)
(***************************************************************************)
\* get_natural, entered with the cursor at `start`; natural = 0, sign = 1
NaturalFrame(start) ==
    [fn |-> "get_natural", pc |-> "sign", natural |-> 0, sign |-> 1, start |-> start]

\* evaluate_term, waiting for the get_natural of line 84
TermFrame ==
    [fn |-> "evaluate_term", pc |-> "first", result |-> 0, operator |-> NUL, operand |-> 0]

\* evaluate_expression, waiting for the evaluate_term of line 115
ExpressionFrame ==
    [fn |-> "evaluate_expression", pc |-> "first", result |-> 0, operator |-> NUL]

Top == stack[Len(stack)]

Below == SubSeq(stack, 1, Len(stack) - 1)

Running(fn, pc) ==
    /\ status = "parse"
    /\ Len(stack) > 0
    /\ Top.fn = fn
    /\ Top.pc = pc

\* the stack with its top frame replaced
SetTop(f) == Below \o <<f>>

\* a call of get_natural(expr, position) with the cursor at p
CallNatural(stk, p) == stk \o <<NaturalFrame(p)>>

\* a call of evaluate_term: its first statement calls get_natural
CallTerm(stk, p) == CallNatural(stk \o <<TermFrame>>, p)

\* a call of evaluate_expression: its first statement calls evaluate_term
CallExpression(stk, p) == CallTerm(stk \o <<ExpressionFrame>>, p)

\* a slip: the digit is added without the shift by one decimal place
AccumulateNoShift(natural, c) == natural + DigitValue(c)

\* natural = natural * 10 + expr[*position] - '0'
Accumulate(natural, c) == natural * 10 + DigitValue(c)

\* a slip: the sign is dropped
NaturalValueUnsigned(f) == f.natural

\* return natural * sign
NaturalValue(f) == f.natural * f.sign

\* expr[*position] == '*' || expr[*position] == '/'
IsTermOperator(c) == c = "*" \/ c = "/"

\* a slip: the loop of evaluate_expression goes on for '+' alone
IsPlus(c) == c = "+"

\* expr[*position] == '+' || expr[*position] == '-'
IsExpressionOperator(c) == c = "+" \/ c = "-"

\* a slip: the quotient rounded down
FloorDiv(a, b) == IF b > 0 THEN a \div b ELSE (0 - a) \div (0 - b)

\* C's a / b for b # 0: the algebraic quotient with the fraction discarded.
\* Every value of a run is below 2^31 for texts of up to nine characters, so
\* the int arithmetic of the program is the arithmetic of the integers here.
CDiv(a, b) ==
    LET q == Abs(a) \div Abs(b)
    IN  IF (a < 0) = (b < 0) THEN q ELSE -q

\* calculate is entered with a text that is not empty; for the empty text the
\* bound strlen(expression) - 1 of its loop wraps around
Init ==
    /\ text \in Texts
    /\ i = 0
    /\ position = 0
    /\ stack = <<>>
    /\ status = "validate"
    /\ result = 0
    /\ tail = <<>>

(***************************************************************************)
(* calculate: the loop over the characters, then the evaluation.           *)
(***************************************************************************)
\* the bound of the validation loop, strlen(expression) - 1
ValidateBound == strlen(text) - 1

\* one iteration of the loop: expression[i] is a right character
CalculateCheck ==
    /\ status = "validate"
    /\ i < ValidateBound
    /\ is_right_char(text[i + 1])
    /\ i' = i + 1
    /\ UNCHANGED <<text, position, stack, status, result, tail>>

\* printf("Wrong character in the expression."); exit(EXIT_FAILURE)
CalculateWrong ==
    /\ status = "validate"
    /\ i < ValidateBound
    /\ ~is_right_char(text[i + 1])
    /\ status' = "wrong_char"
    /\ UNCHANGED <<text, i, position, stack, result, tail>>

\* int position = 0; return evaluate_expression(expression, &position)
CalculateEvaluate ==
    /\ status = "validate"
    /\ ~(i < ValidateBound)
    /\ position' = 0
    /\ stack' = CallExpression(<<>>, 0)
    /\ status' = "parse"
    /\ UNCHANGED <<text, i, result, tail>>

(***************************************************************************)
(* get_natural                                                             *)
(***************************************************************************)
\* if (expr[*position] == '-') { sign *= -1; (*position)++; }
GetNaturalSign ==
    /\ Running("get_natural", "sign")
    /\ Readable(position)
    /\ IF Cur = "-"
       THEN /\ stack' = SetTop([Top EXCEPT !.pc = "paren", !.sign = -1 * Top.sign])
            /\ position' = position + 1
       ELSE /\ stack' = SetTop([Top EXCEPT !.pc = "paren"])
            /\ UNCHANGED position
    /\ UNCHANGED <<text, i, status, result, tail>>

\* if (expr[*position] == '(') { (*position)++; natural = evaluate_expression(...)
GetNaturalParen ==
    /\ Running("get_natural", "paren")
    /\ Readable(position)
    /\ IF Cur = "("
       THEN /\ position' = position + 1
            /\ stack' = CallExpression(SetTop([Top EXCEPT !.pc = "inner"]), position + 1)
       ELSE /\ stack' = SetTop([Top EXCEPT !.pc = "digits"])
            /\ UNCHANGED position
    /\ UNCHANGED <<text, i, status, result, tail>>

\* (*position)++ after the parenthesized expression, line 58
GetNaturalClose ==
    /\ Running("get_natural", "close")
    /\ position' = position + 1
    /\ stack' = SetTop([Top EXCEPT !.pc = "return"])
    /\ UNCHANGED <<text, i, status, result, tail>>

\* one iteration of while (isdigit(expr[*position])), with its break
GetNaturalDigit ==
    /\ Running("get_natural", "digits")
    /\ Readable(position)
    /\ isdigit(Cur)
    /\ position' = position + 1
    /\ stack' = SetTop([Top EXCEPT
                 !.natural = Accumulate(Top.natural, Cur),
                 !.pc = IF position + 1 >= strlen(text) THEN "return" ELSE "digits"])
    /\ UNCHANGED <<text, i, status, result, tail>>

\* a slip: the character that is no digit is stepped over
GetNaturalStopSkips ==
    /\ Running("get_natural", "digits")
    /\ Readable(position)
    /\ ~isdigit(Cur)
    /\ position' = position + 1
    /\ stack' = SetTop([Top EXCEPT !.pc = "return"])
    /\ UNCHANGED <<text, i, status, result, tail>>

\* the loop ends on a character that is no digit
GetNaturalStop ==
    /\ Running("get_natural", "digits")
    /\ Readable(position)
    /\ ~isdigit(Cur)
    /\ stack' = SetTop([Top EXCEPT !.pc = "return"])
    /\ UNCHANGED <<text, i, position, status, result, tail>>

\* what evaluate_term does with the value v that get_natural returns to it
TermReceive(f, v) ==
    CASE f.pc = "first" -> [f EXCEPT !.result = v, !.pc = "loop"]
      [] f.pc = "mul"   -> [f EXCEPT !.result = f.result * v, !.pc = "loop"]
      [] f.pc = "div"   -> [f EXCEPT !.operand = v, !.pc = "check"]

\* a slip: the operands of '-' are swapped
ExpressionReceiveSwapped(f, v) ==
    CASE f.pc = "first" -> [f EXCEPT !.result = v, !.pc = "loop"]
      [] f.pc = "add"   -> [f EXCEPT !.result = f.result + v, !.pc = "loop"]
      [] f.pc = "sub"   -> [f EXCEPT !.result = v - f.result, !.pc = "loop"]

\* what evaluate_expression does with the value v that evaluate_term returns to it
ExpressionReceive(f, v) ==
    CASE f.pc = "first" -> [f EXCEPT !.result = v, !.pc = "loop"]
      [] f.pc = "add"   -> [f EXCEPT !.result = f.result + v, !.pc = "loop"]
      [] f.pc = "sub"   -> [f EXCEPT !.result = f.result - v, !.pc = "loop"]

\* natural = evaluate_expression(expr, position), line 57
NaturalReceive(f, v) == [f EXCEPT !.natural = v, !.pc = "close"]

\* the stack after its top frame returned and its caller took the value as frame f
Returned(f) == SubSeq(stack, 1, Len(stack) - 2) \o <<f>>

\* return natural * sign, to the evaluate_term that called
GetNaturalReturn ==
    /\ Running("get_natural", "return")
    /\ stack' = Returned(TermReceive(stack[Len(stack) - 1], NaturalValue(Top)))
    /\ UNCHANGED <<text, i, position, status, result, tail>>

(***************************************************************************)
(* evaluate_term                                                           *)
(***************************************************************************)
\* the loop finds '*' or '/': operator = expr[*position]; (*position)++; get_natural
EvaluateTermOperator ==
    /\ Running("evaluate_term", "loop")
    /\ Readable(position)
    /\ IsTermOperator(Cur)
    /\ position' = position + 1
    /\ stack' = CallNatural(SetTop([Top EXCEPT
                   !.operator = Cur,
                   !.pc = IF Cur = "*" THEN "mul" ELSE "div"]), position + 1)
    /\ UNCHANGED <<text, i, status, result, tail>>

\* result /= operand
EvaluateTermDivide ==
    /\ Running("evaluate_term", "check")
    /\ Top.operand # 0
    /\ stack' = SetTop([Top EXCEPT !.result = CDiv(Top.result, Top.operand), !.pc = "loop"])
    /\ UNCHANGED <<text, i, position, status, result, tail>>

\* a slip: a zero operand skips the division and the run goes on
EvaluateTermDivideSkipped ==
    /\ Running("evaluate_term", "check")
    /\ Top.operand = 0
    /\ stack' = SetTop([Top EXCEPT !.pc = "loop"])
    /\ UNCHANGED <<text, i, position, status, result, tail>>

\* if (operand == 0) exit(EXIT_FAILURE)
EvaluateTermDivideByZero ==
    /\ Running("evaluate_term", "check")
    /\ Top.operand = 0
    /\ status' = "div_zero"
    /\ UNCHANGED <<text, i, position, stack, result, tail>>

\* the loop ends: return result, to the evaluate_expression that called
EvaluateTermReturn ==
    /\ Running("evaluate_term", "loop")
    /\ Readable(position)
    /\ ~IsTermOperator(Cur)
    /\ stack' = Returned(ExpressionReceive(stack[Len(stack) - 1], Top.result))
    /\ UNCHANGED <<text, i, position, status, result, tail>>

(***************************************************************************)
(* evaluate_expression                                                     *)
(***************************************************************************)
\* the loop finds '+' or '-': operator = expr[*position]; (*position)++; evaluate_term
EvaluateExpressionOperator ==
    /\ Running("evaluate_expression", "loop")
    /\ Readable(position)
    /\ IsExpressionOperator(Cur)
    /\ position' = position + 1
    /\ stack' = CallTerm(SetTop([Top EXCEPT
                   !.operator = Cur,
                   !.pc = IF Cur = "+" THEN "add" ELSE "sub"]), position + 1)
    /\ UNCHANGED <<text, i, status, result, tail>>

\* the loop ends: return result, to the get_natural that called
EvaluateExpressionReturn ==
    /\ Running("evaluate_expression", "loop")
    /\ Len(stack) > 1
    /\ Readable(position)
    /\ ~IsExpressionOperator(Cur)
    /\ stack' = Returned(NaturalReceive(stack[Len(stack) - 1], Top.result))
    /\ UNCHANGED <<text, i, position, status, result, tail>>

\* the loop ends in the call that calculate made: calculate returns the value
CalculateReturn ==
    /\ Running("evaluate_expression", "loop")
    /\ Len(stack) = 1
    /\ Readable(position)
    /\ ~IsExpressionOperator(Cur)
    /\ status' = "returned"
    /\ result' = Top.result
    /\ stack' = <<>>
    /\ UNCHANGED <<text, i, position, tail>>

(***************************************************************************)
(* A read behind the terminator.  The cursor gets there when get_natural   *)
(* steps over a ')' that is not in the text.  The byte read is whatever    *)
(* the memory holds, or the read is the end of the run (a trap).           *)
(***************************************************************************)
\* the top frame is at a place that reads the character under the cursor
AtRead ==
    /\ status = "parse"
    /\ Len(stack) > 0
    /\ \/ Top.fn = "get_natural" /\ Top.pc \in {"sign", "paren", "digits"}
       \/ Top.fn = "evaluate_term" /\ Top.pc = "loop"
       \/ Top.fn = "evaluate_expression" /\ Top.pc = "loop"

ReadBeyondByte ==
    /\ AtRead
    /\ ~Readable(position)
    /\ Len(tail) < MaxTail
    /\ \E b \in JunkBytes : tail' = Append(tail, b)
    /\ UNCHANGED <<text, i, position, stack, status, result>>

ReadBeyondFault ==
    /\ AtRead
    /\ ~Readable(position)
    /\ status' = "fault"
    /\ UNCHANGED <<text, i, position, stack, result, tail>>

Next ==
    \/ CalculateCheck
    \/ CalculateWrong
    \/ CalculateEvaluate
    \/ GetNaturalSign
    \/ GetNaturalParen
    \/ GetNaturalClose
    \/ GetNaturalDigit
    \/ GetNaturalStop
    \/ GetNaturalReturn
    \/ EvaluateTermOperator
    \/ EvaluateTermDivide
    \/ EvaluateTermDivideByZero
    \/ EvaluateTermReturn
    \/ EvaluateExpressionOperator
    \/ EvaluateExpressionReturn
    \/ CalculateReturn
    \/ ReadBeyondByte
    \/ ReadBeyondFault

Spec == Init /\ [][Next]_vars

(***************************************************************************)
(* The meaning of an expression text by standard arithmetic, computed by   *)
(* splitting the text at its operators and not by a scan: an expression is *)
(* split at its last '+' or '-' that is binary and outside parentheses, a  *)
(* term at its last '*' or '/' outside parentheses, a factor is an         *)
(* optional '-' and a primary, a primary is a run of digits or an          *)
(* expression in parentheses.  The meaning is a record: wf says that the   *)
(* text is well formed, ok that no divisor is 0, v is the value.           *)
(***************************************************************************)
NotWellFormed == [wf |-> FALSE, ok |-> FALSE, v |-> 0]

DivisionByZero == [wf |-> TRUE, ok |-> FALSE, v |-> 0]

Value(n) == [wf |-> TRUE, ok |-> TRUE, v |-> n]

\* the number of parentheses open before the k-th character of s
Depth(s, k) ==
    Cardinality({j \in 1..(k - 1) : s[j] = "("}) - Cardinality({j \in 1..(k - 1) : s[j] = ")"})

\* the k-th character of s is a binary operator of ops outside parentheses
SplitsAt(s, k, ops) ==
    /\ s[k] \in ops
    /\ k > 1
    /\ s[k - 1] \in Digits \cup {")"}
    /\ Depth(s, k) = 0

Splits(s, ops) == {k \in 1..Len(s) : SplitsAt(s, k, ops)}

Last(K) == CHOOSE k \in K : \A j \in K : j <= k

\* the quotient rounded toward zero
TruncatedQuotient(a, b) ==
    LET q == Abs(a) \div Abs(b)
    IN  IF a * b < 0 THEN -q ELSE q

Combine(l, op, r) ==
    IF ~(l.wf /\ r.wf) THEN NotWellFormed
    ELSE IF ~(l.ok /\ r.ok) THEN DivisionByZero
    ELSE CASE op = "+" -> Value(l.v + r.v)
           [] op = "-" -> Value(l.v - r.v)
           [] op = "*" -> Value(l.v * r.v)
           [] op = "/" -> IF r.v = 0 THEN DivisionByZero
                          ELSE Value(TruncatedQuotient(l.v, r.v))

RECURSIVE Power10(_)

Power10(n) == IF n = 0 THEN 1 ELSE 10 * Power10(n - 1)

RECURSIVE Sum(_, _)

\* the sum of f[k] for k in 1..n
Sum(f, n) == IF n = 0 THEN 0 ELSE f[n] + Sum(f, n - 1)

\* the number that a run of digits writes in base 10
Base10(s) == Sum([k \in 1..Len(s) |-> DigitValue(s[k]) * Power10(Len(s) - k)], Len(s))

AllDigits(s) == Len(s) > 0 /\ \A k \in 1..Len(s) : s[k] \in Digits

RECURSIVE MeaningExpr(_), MeaningTerm(_), MeaningFact(_), MeaningPrim(_)

MeaningPrim(s) ==
    IF AllDigits(s) THEN Value(Base10(s))
    ELSE IF Len(s) >= 3 /\ s[1] = "(" /\ s[Len(s)] = ")"
         THEN MeaningExpr(SubSeq(s, 2, Len(s) - 1))
         ELSE NotWellFormed

MeaningFact(s) ==
    IF Len(s) > 0 /\ s[1] = "-"
    THEN Combine(Value(0), "-", MeaningPrim(Tail(s)))
    ELSE MeaningPrim(s)

MeaningTerm(s) ==
    LET K == Splits(s, {"*", "/"})
    IN  IF K = {} THEN MeaningFact(s)
        ELSE LET k == Last(K)
             IN  Combine(MeaningTerm(SubSeq(s, 1, k - 1)), s[k],
                         MeaningFact(SubSeq(s, k + 1, Len(s))))

MeaningExpr(s) ==
    LET K == Splits(s, {"+", "-"})
    IN  IF K = {} THEN MeaningTerm(s)
        ELSE LET k == Last(K)
             IN  Combine(MeaningExpr(SubSeq(s, 1, k - 1)), s[k],
                         MeaningTerm(SubSeq(s, k + 1, Len(s))))

WellFormed(s) == MeaningExpr(s).wf

\* the run is over
Done == status \in {"returned", "wrong_char", "div_zero", "fault"}

\* every character of s is of the allowed set
AllAllowed(s) == \A k \in 1..Len(s) : is_right_char(s[k])

\* s[a..e] is a whole primary of s: it is no part of a longer run of digits
PrimaryAt(s, a, e) ==
    /\ 1 <= a /\ a <= e /\ e <= Len(s)
    /\ MeaningPrim(SubSeq(s, a, e)).wf
    /\ MeaningPrim(SubSeq(s, a, e)).ok
    /\ ~(s[e] \in Digits /\ e < Len(s) /\ s[e + 1] \in Digits)

\* s[a..e] is a whole factor of s
FactorAt(s, a, e) ==
    IF a <= Len(s) /\ s[a] = "-" THEN PrimaryAt(s, a + 1, e) ELSE PrimaryAt(s, a, e)

\* some '/' of s is followed by a factor that evaluates to 0
HasZeroDivisor(s) ==
    \E k \in 1..Len(s) : \E e \in (k + 1)..Len(s) :
        /\ s[k] = "/"
        /\ FactorAt(s, k + 1, e)
        /\ MeaningFact(SubSeq(s, k + 1, e)).v = 0

\* the end of the run of digits of s that starts at the 0-based index a
RECURSIVE DigitRunEnd(_, _)

DigitRunEnd(s, a) ==
    IF a < Len(s) /\ s[a + 1] \in Digits THEN DigitRunEnd(s, a + 1) ELSE a

\* get_natural is at its return statement
AtNaturalReturn == Running("get_natural", "return")

(***************************************************************************)
(* C1.  For every well-formed expression text in which no divisor is 0,    *)
(* calculate returns the value of standard arithmetic: '*' and '/' bind    *)
(* tighter than '+' and '-', equal precedence groups left to right, a      *)
(* parenthesized expression is one factor.                                 *)
(***************************************************************************)
C1_StandardArithmetic ==
    (Done /\ WellFormed(text) /\ MeaningExpr(text).ok)
        => (status = "returned" /\ result = MeaningExpr(text).v)

\* a returned expression with '+' or '-', '*' or '/', and parentheses
C1_Witness ==
    /\ status = "returned"
    /\ WellFormed(text)
    /\ Splits(text, {"+", "-"}) # {}
    /\ \E k \in 1..Len(text) : text[k] \in {"*", "/"}
    /\ \E k \in 1..Len(text) : text[k] = "("
    /\ result # 0

(***************************************************************************)
(* C2.  A text with a character outside the allowed set at any index, the  *)
(* last one included, is rejected by calculate before any parsing: the     *)
(* run is in the validation loop or has ended with the wrong-character     *)
(* failure.                                                                *)
(***************************************************************************)
C2_InvalidCharacterRejected ==
    (\E k \in 1..Len(text) : ~is_right_char(text[k]))
        => status \in {"validate", "wrong_char"}

(***************************************************************************)
(* C3.  As claimed: every text over the allowed characters in which some   *)
(* '/' is followed by a factor that evaluates to 0 ends in the             *)
(* division-by-zero abort.                                                 *)
(***************************************************************************)
C3_AnyTextAborts ==
    (Done /\ AllAllowed(text) /\ HasZeroDivisor(text)) => status = "div_zero"

(***************************************************************************)
(* C3, amended.  Every well-formed expression text in which some '/' is    *)
(* followed by a factor that evaluates to 0 ends in the division-by-zero   *)
(* abort and returns no value.                                             *)
(***************************************************************************)
C3_WellFormedAborts ==
    (Done /\ WellFormed(text) /\ HasZeroDivisor(text)) => status = "div_zero"

\* the abort on a divisor in parentheses that evaluates to 0, as in 2/(2-2)
C3_Witness ==
    /\ status = "div_zero"
    /\ WellFormed(text)
    /\ HasZeroDivisor(text)
    /\ \E k \in 2..Len(text) : text[k - 1] = "/" /\ text[k] = "("

(***************************************************************************)
(* C4.  The division of the Term parser rounds toward zero: with running   *)
(* result a and right factor b # 0 the new result q is                     *)
(* sign(a*b) * (|a| div |b|), which leaves a remainder a - q*b smaller     *)
(* than |b| that is 0 or has the sign of a.                                *)
(***************************************************************************)
C4_DivisionTruncates ==
    [][EvaluateTermDivide =>
        LET a == Top.result
            b == Top.operand
            q == Top'.result
            r == a - q * b
        IN  /\ q = TruncatedQuotient(a, b)
            /\ Abs(r) < Abs(b)
            /\ r = 0 \/ (r < 0) = (a < 0)]_vars

\* -2/22 has yielded 0, where the floor is -1
C4_Witness ==
    /\ Running("evaluate_term", "loop")
    /\ Top.operator = "/"
    /\ Top.operand = 22
    /\ Top.result = 0
    /\ SubSeq(text, 1, position) = <<"-", "2", "/", "2", "2">>

(***************************************************************************)
(* C5.  get_natural started on a '-' that is directly followed by a        *)
(* factor F, a run of digits or an expression in parentheses, returns the  *)
(* negation of the value of F and leaves the cursor just behind F; so      *)
(* -2*2 is -4, -2*-2 is 4 and 0*-2 is 0.                                   *)
(***************************************************************************)
C5_UnaryMinus ==
    /\ AtNaturalReturn =>
          \A e \in 1..Len(text) :
              (/\ Top.start < Len(text)
               /\ text[Top.start + 1] = "-"
               /\ PrimaryAt(text, Top.start + 2, e))
                  => /\ NaturalValue(Top) = 0 - MeaningPrim(SubSeq(text, Top.start + 2, e)).v
                     /\ position = e
    /\ (status = "returned" /\ text = <<"-", "2", "*", "2">>) => result = -4
    /\ (status = "returned" /\ text = <<"-", "2", "*", "-", "2">>) => result = 4
    /\ (status = "returned" /\ text = <<"0", "*", "-", "2">>) => result = 0

\* get_natural returns the negation of a parenthesized expression that is not 0
C5_Witness ==
    /\ AtNaturalReturn
    /\ Top.start + 2 <= Len(text)
    /\ text[Top.start + 1] = "-"
    /\ text[Top.start + 2] = "("
    /\ PrimaryAt(text, Top.start + 2, position)
    /\ NaturalValue(Top) < 0

(***************************************************************************)
(* C6.  For every text over the allowed characters the evaluation ends by  *)
(* returning a value or by the division-by-zero abort, and the cursor,     *)
(* which counts the consumption steps, never passes the length of the      *)
(* text.                                                                   *)
(***************************************************************************)
C6_TerminatesWithinText ==
    AllAllowed(text) =>
        /\ Done => status \in {"returned", "div_zero"}
        /\ position <= strlen(text)

(***************************************************************************)
(* C7.  In every state of an evaluation the cursor is an index of the text *)
(* or the index of its terminator: 0 <= cursor <= length(text).            *)
(***************************************************************************)
C7_CursorInText == 0 <= position /\ position <= strlen(text)

(***************************************************************************)
(* C8.  As claimed: when the Expression parser that calculate called       *)
(* returns a value the cursor is at the end of the text.                   *)
(***************************************************************************)
C8_WholeTextConsumed == status = "returned" => position = strlen(text)

(***************************************************************************)
(* C8, amended.  When the Expression parser that calculate called returns  *)
(* a value no operator is pending: the character under the cursor is none  *)
(* of '+', '-', '*', '/'.  The cursor may be short of the end of the text. *)
(***************************************************************************)
C8_NoPendingOperator ==
    status = "returned" =>
        /\ Readable(position)
        /\ Cur \notin {"+", "-", "*", "/"}

\* a value is returned with the cursor on a ')' and an operator behind it unread
C8_Witness ==
    /\ status = "returned"
    /\ position + 2 <= strlen(text)
    /\ text[position + 1] = ")"
    /\ text[position + 2] \in {"+", "-", "*", "/"}

(***************************************************************************)
(* C9.  get_natural called with the cursor on a character that is neither  *)
(* '-', '(' nor a digit returns 0 and leaves the cursor where it was; the  *)
(* run goes on.                                                            *)
(***************************************************************************)
C9_NoFactor ==
    (AtNaturalReturn /\ Byte(Top.start) \notin (Digits \cup {"-", "("}))
        => (NaturalValue(Top) = 0 /\ position = Top.start)

\* get_natural returns on a character outside the allowed set
C9_Witness ==
    /\ AtNaturalReturn
    /\ Top.start < strlen(text)
    /\ Byte(Top.start) = Other
    /\ position = Top.start

(***************************************************************************)
(* C10.  get_natural called with the cursor on a digit of the text         *)
(* consumes the whole run of digits that starts there, returns its base-10 *)
(* value and leaves the cursor on the first character behind the run.      *)
(***************************************************************************)
C10_DigitRun ==
    (AtNaturalReturn /\ Top.start < strlen(text) /\ Byte(Top.start) \in Digits)
        => LET e == DigitRunEnd(text, Top.start)
           IN  /\ position = e
               /\ NaturalValue(Top) = Base10(SubSeq(text, Top.start + 1, e))

\* a run of two or more digits was read and the character behind it is not consumed
C10_Witness ==
    /\ AtNaturalReturn
    /\ Byte(Top.start) \in Digits
    /\ position >= Top.start + 2
    /\ position < strlen(text)
    /\ NaturalValue(Top) >= 10

====
